---- MODULE Spec2Model ----
(***************************************************************************)
(* Model of the data-access layer: the tenant-scoped model cache and the   *)
(* record-access facade (MongoBase), and the connection manager            *)
(* (tool/mongodb.ts).                                                      *)
(***************************************************************************)
EXTENDS Integers, Sequences, FiniteSets, Bags, TLC

(***************************************************************************)
(* Bounds of the model.                                                    *)
(***************************************************************************)
MaxLen == 2          \* longest sequence handed to create
MaxInFlight == 2     \* facade operations awaiting the driver at once
MaxHandles == 3      \* models compiled over a run
MaxOids == 2         \* ObjectIds generated over a run
TickMs == 900000     \* largest step by which the cache clock advances
MaxFail == 3         \* connection attempts the environment lets fail
MaxDrops == 1        \* mid-session disconnects the environment causes
MaxDocs == 2         \* documents the collection holds at most
ConnTickMs == 2500   \* largest step by which the retry clock advances

(***************************************************************************)
(* Program constants.                                                      *)
(***************************************************************************)
TTL == 30 * 60 * 1000
RECONNET_TIME == 5000

VARIABLES
    tenantDBModel,   \* global.tenantDBModel: name -> [data, timer]
    timers,          \* pending setTimeout timers of the cache
    nextHandle,      \* models compiled so far (the last handle's identity)
    oidCounter,      \* ObjectIds generated so far
    inflight,        \* facade operations awaiting the driver
    lastCreate,      \* the latest call of create: its argument and this.id(data)
    generated,       \* the identifiers new Types.ObjectId() has returned, in order
    uncaught,        \* an exception escaped a timer callback
    stored,          \* the documents of the collection, each by the value of its field v
    lastResult,      \* the latest value a facade call has returned or resolved with
    constructed,     \* new MongoDB() has run
    env,             \* getENV('MONGO_URL')
    readyState,      \* mongoose.connection.readyState
    hasOpened,       \* the connection has been open once
    target,          \* the address of the driver's current connection
    callbacks,       \* connect callbacks awaiting the attempt's outcome
    onceConnected,   \* the once('connected') listener is still registered
    retryTimers,     \* pending setTimeout(mongoconnect) timers: remaining ms -> count
    log,             \* what systemLog('mongodb') has emitted, in order
    failures,        \* attempts the environment has failed
    drops,           \* mid-session disconnects so far
    thrown,          \* mongoose.connect threw out of mongoconnect
    closed,          \* close() has been called
    closeOnOpen,     \* a close() is waiting for the attempt under way to open
    clientClosed     \* the driver's client was closed and not replaced since

cacheVars == <<tenantDBModel, timers, nextHandle, oidCounter, inflight, lastCreate,
               generated, uncaught, stored, lastResult>>

connVars == <<constructed, env, readyState, hasOpened, target, callbacks, onceConnected,
              retryTimers, log, failures, drops, thrown, closed, closeOnOpen, clientClosed>>

vars == <<cacheVars, connVars>>

(***************************************************************************)
(* Values.                                                                 *)
(***************************************************************************)
Undefined == "undefined"

\* the facade instances constructed by the callers (constructor arguments)
Facades ==
    { [collectionName |-> "users",     tenantId |-> Undefined, inst |-> 1],
      [collectionName |-> "t1_orders", tenantId |-> "t1",      inst |-> 1],
      [collectionName |-> "t1_orders", tenantId |-> "t1",      inst |-> 2],
      [collectionName |-> "t2_orders", tenantId |-> "t2",      inst |-> 1] }

Names == { f.collectionName : f \in Facades }

\* JavaScript truthiness of a string-or-undefined value
Truthy(v) == v # Undefined /\ v # ""

Whitespace == {" ", "\t"}

\* values of a record's _id: absent, a number, or a string (a sequence of characters)
IdVals ==
    { [type |-> "undefined", val |-> <<>>],
      [type |-> "number",    val |-> <<"7">>],
      [type |-> "string",    val |-> <<>>],
      [type |-> "string",    val |-> <<" ", "\t">>],
      [type |-> "string",    val |-> <<"a", "1">>] }

\* a record: its _id and the rest of its fields (body), which tells the
\* records of one call apart
Rec(idv, body) == [_id |-> idv, body |-> body]

\* the argument of create: one record, or an array of records
DataInputs ==
    { [isArray |-> FALSE, recs |-> <<Rec(v, 1)>>] : v \in IdVals }
      \cup UNION { { [isArray |-> TRUE, recs |-> [i \in 1..n |-> Rec(ids[i], i)]] :
                       ids \in [1..n -> IdVals] } : n \in 0..MaxLen }

(***************************************************************************)
(* String.prototype.trim                                                   *)
(***************************************************************************)
RECURSIVE TrimStart(_)
TrimStart(s) ==
    IF s # <<>> /\ Head(s) \in Whitespace THEN TrimStart(Tail(s)) ELSE s

RECURSIVE TrimEnd(_)
TrimEnd(s) ==
    IF s # <<>> /\ s[Len(s)] \in Whitespace THEN TrimEnd(SubSeq(s, 1, Len(s) - 1)) ELSE s

trim(s) == TrimEnd(TrimStart(s))

(***************************************************************************)
(* new Types.ObjectId().toString(): 24 hexadecimal characters; the last    *)
(* three bytes are the process counter, which is incremented per id.       *)
(***************************************************************************)
HexDigits == <<"0", "1", "2", "3", "4", "5", "6", "7", "8", "9", "a", "b", "c", "d", "e", "f">>

\* the digits of n, most significant first, in `width` characters
RECURSIVE Hex(_, _)
Hex(n, width) ==
    IF width = 0 THEN <<>>
    ELSE Append(Hex(n \div 16, width - 1), HexDigits[(n % 16) + 1])

ObjectIdToString(ctr) ==
    Hex(0, 18) \o Hex(ctr % (2 ^ 24), 6)

NewObjectId(ctr) == [type |-> "string", val |-> ObjectIdToString(ctr)]

(***************************************************************************)
(* MongoBase.id: the records handed to the driver by create.               *)
(***************************************************************************)
\* typeof _id !== 'string' || typeof _id === 'string' && _id.trim() === ''
needsId(r) ==
    r._id.type # "string" \/ (r._id.type = "string" /\ trim(r._id.val) = <<>>)

\* { ...data, _id: new Types.ObjectId().toString() }
withNewId(r, ctr) == [r EXCEPT !._id = NewObjectId(ctr)]

RECURSIVE idLoop(_, _, _, _)
idLoop(recs, i, result, ctr) ==
    IF i > Len(recs) THEN [result |-> result, ctr |-> ctr]
    ELSE IF needsId(recs[i])
         THEN idLoop(recs, i + 1, Append(result, withNewId(recs[i], ctr + 1)), ctr + 1)
         ELSE idLoop(recs, i + 1, result, ctr)

\* mutant: one identifier is generated per call and given to every record
idOnePerCall(data, ctr) ==
    IF data.isArray
    THEN LET lacking == SelectSeq(data.recs, needsId)
         IN  [result |-> [k \in DOMAIN lacking |-> withNewId(lacking[k], ctr + 1)],
              ctr |-> IF lacking = <<>> THEN ctr ELSE ctr + 1]
    ELSE [result |-> <<withNewId(data.recs[1], ctr + 1)>>, ctr |-> ctr + 1]

id(data, ctr) ==
    IF data.isArray
    THEN idLoop(data.recs, 1, <<>>, ctr)
    ELSE [result |-> <<withNewId(data.recs[1], ctr + 1)>>, ctr |-> ctr + 1]

(***************************************************************************)
(* MongoBase.model (the getter): the handle it returns and what it leaves  *)
(* in the keyed cache, the timer queue and the compile counters.           *)
(* A miss runs new mongodb.schema(...) and mongodb.server.model(name,       *)
(* schema, name), which compiles a model at every call: a handle is named  *)
(* by the number of the compilation that made it.                          *)
(***************************************************************************)
\* mutant: the lookup uses a key under which nothing is ever stored
hasEntryWrongKey(cache, name) == <<name, "tenant">> \in DOMAIN cache

hasEntry(cache, name) == name \in DOMAIN cache

\* mutant: the callback's closure holds one name for every timer
newTimerOneName(tid, name) == [id |-> tid, name |-> "t1_orders", remaining |-> TTL]

newTimer(tid, name) == [id |-> tid, name |-> name, remaining |-> TTL]

\* mutant: a cache hit restarts the entry's 30 minutes
modelRefreshOnHit(f) ==
    LET name == f.collectionName
        compiled == nextHandle + 1
    IN  IF hasEntry(tenantDBModel, name)
        THEN [data |-> tenantDBModel[name].data, cache |-> tenantDBModel,
              timers |-> { IF t.id = tenantDBModel[name].timer
                           THEN [t EXCEPT !.remaining = TTL] ELSE t : t \in timers },
              nextHandle |-> nextHandle]
        ELSE IF ~Truthy(f.tenantId)
        THEN [data |-> compiled, cache |-> tenantDBModel,
              timers |-> timers, nextHandle |-> compiled]
        ELSE [data |-> compiled,
              cache |-> [n \in DOMAIN tenantDBModel \cup {name} |->
                            IF n = name THEN [data |-> compiled, timer |-> compiled]
                            ELSE tenantDBModel[n]],
              timers |-> timers \cup {newTimer(compiled, name)},
              nextHandle |-> compiled]

model(f) ==
    LET name == f.collectionName
        compiled == nextHandle + 1
        tid == compiled     \* the timer object, named after the handle it is created with
    IN  IF hasEntry(tenantDBModel, name)
        THEN [data |-> tenantDBModel[name].data, cache |-> tenantDBModel,
              timers |-> timers, nextHandle |-> nextHandle]
        ELSE IF ~Truthy(f.tenantId)
        THEN [data |-> compiled, cache |-> tenantDBModel,
              timers |-> timers, nextHandle |-> compiled]
        ELSE [data |-> compiled,
              cache |-> [n \in DOMAIN tenantDBModel \cup {name} |->
                            IF n = name THEN [data |-> compiled, timer |-> tid]
                            ELSE tenantDBModel[n]],
              timers |-> timers \cup {newTimer(tid, name)},
              nextHandle |-> compiled]

\* the state the getter leaves behind
resolve(m) ==
    /\ m.nextHandle <= MaxHandles
    /\ tenantDBModel' = m.cache
    /\ timers' = m.timers
    /\ nextHandle' = m.nextHandle

NoData == [isArray |-> TRUE, recs |-> <<>>]

\* a query argument: omitted, or an object that asks for a value of v or for nothing
NoQuery == [given |-> FALSE, v |-> "absent"]

Query(v) == [given |-> TRUE, v |-> v]

EmptyQuery == Query("absent")

FieldValues == {"a", "b"}

QueryInputs == {NoQuery, EmptyQuery} \cup { Query(v) : v \in FieldValues }

\* an options argument: omitted, or an object with or without upsert and runValidators
NoOptions == [given |-> FALSE, upsert |-> "absent", runValidators |-> "absent"]

Options(upsert, runValidators) ==
    [given |-> TRUE, upsert |-> upsert, runValidators |-> runValidators]

OptionInputs ==
    {NoOptions} \cup { Options(u, r) : u \in {"absent", "false", "true"}, r \in {"absent", "true"} }

\* the arguments of a facade call (asked, given) and of the driver call it makes
Args(method, asked, given, query, options, page) ==
    [method |-> method, asked |-> asked, given |-> given, query |-> query,
     options |-> options, page |-> page]

NoArgs == Args("", NoQuery, NoOptions, NoQuery, NoOptions, <<>>)

Op(f, kind, handle, docs) ==
    [name |-> f.collectionName, kind |-> kind, handle |-> handle, docs |-> docs,
     args |-> NoArgs]

Call(f, kind, handle, args) == [Op(f, kind, handle, <<>>) EXCEPT !.args = args]

NoResult ==
    [op |-> [name |-> "", kind |-> "", handle |-> 0, docs |-> <<>>, args |-> NoArgs],
     matchedCount |-> 0, upsertedCount |-> 0, count |-> 0]

(***************************************************************************)
(* Facade operations: the synchronous part, up to the await.               *)
(***************************************************************************)
create(f, data) ==
    LET m == model(f)
        r == id(data, oidCounter)
    IN  /\ BagCardinality(inflight) < MaxInFlight
        /\ r.ctr <= MaxOids
        /\ resolve(m)
        /\ oidCounter' = r.ctr
        /\ inflight' = inflight (+) SetToBag({Op(f, "create", m.data, r.result)})
        /\ lastCreate' = [called |-> TRUE, data |-> data, docs |-> r.result]
        /\ generated' = generated \o [k \in DOMAIN r.result |-> r.result[k]._id]
        /\ UNCHANGED <<uncaught, stored, lastResult>>
        /\ UNCHANGED connVars

find(f) ==
    LET m == model(f)
    IN  /\ BagCardinality(inflight) < MaxInFlight
        /\ resolve(m)
        /\ inflight' = inflight (+) SetToBag({Op(f, "find", m.data, <<>>)})
        /\ UNCHANGED <<oidCounter, lastCreate, generated, uncaught, stored, lastResult>>
        /\ UNCHANGED connVars

\* mutant: the driver call is made on the model compiled first, kept by the instance
callKeptModel(f, kind, args) ==
    /\ BagCardinality(inflight) < MaxInFlight
    /\ nextHandle > 0
    /\ inflight' = inflight (+) SetToBag({Call(f, kind, 1, args)})
    /\ UNCHANGED <<tenantDBModel, timers, nextHandle, oidCounter, lastCreate, generated,
                   uncaught, stored, lastResult>>
    /\ UNCHANGED connVars

\* await this.model.<method>(...): the getter, then the driver call
call(f, kind, args) ==
    LET m == model(f)
    IN  /\ BagCardinality(inflight) < MaxInFlight
        /\ resolve(m)
        /\ inflight' = inflight (+) SetToBag({Call(f, kind, m.data, args)})
        /\ UNCHANGED <<oidCounter, lastCreate, generated, uncaught, stored, lastResult>>
        /\ UNCHANGED connVars

removeOne(f, query) ==
    call(f, "removeOne", Args("deleteOne", query, NoOptions, query, NoOptions, <<>>))

removeMany(f, query) ==
    call(f, "removeMany", Args("deleteMany", query, NoOptions, query, NoOptions, <<>>))

updateOne(f, query, options) ==
    call(f, "updateOne", Args("updateOne", query, options, query, options, <<>>))

updateMany(f, query, options) ==
    call(f, "updateMany", Args("updateMany", query, options, query, options, <<>>))

\* mutant: { upsert: true, ...options }, the caller's upsert wins
forceUpsertCallerWins(options) ==
    Options(IF options.upsert = "absent" THEN "true" ELSE options.upsert, options.runValidators)

\* { ...options, upsert: true }
forceUpsert(options) == Options("true", options.runValidators)

\* this.updateOne(query, update, { ...options, upsert: true })
upsertOne(f, query, options) ==
    call(f, "upsertOne", Args("updateOne", query, options, query, forceUpsert(options), <<>>))

\* this.updateMany(query, update, { ...options, upsert: true })
upsertMany(f, query, options) ==
    call(f, "upsertMany", Args("updateMany", query, options, query, forceUpsert(options), <<>>))

findOne(f, query) ==
    call(f, "findOne", Args("findOne", query, NoOptions, query, NoOptions, <<"lean">>))

findById(f, _id) ==
    call(f, "findById", Args("findById", Query(_id), NoOptions, Query(_id), NoOptions, <<"lean">>))

\* find(query, null, options).sort(sort).skip(skip || 0).limit(limit).lean()
paging(f, query) ==
    call(f, "paging", Args("find", query, NoOptions, query, NoOptions,
                           <<"sort", "skip", "limit", "lean">>))

\* mutant: an empty query object counts as no query
countPathNonEmpty(query) ==
    IF query.given /\ query.v # "absent" THEN "countDocuments" ELSE "estimatedDocumentCount"

\* if (query) countDocuments(query) else estimatedDocumentCount(): an object is truthy
countPath(query) ==
    IF query.given THEN "countDocuments" ELSE "estimatedDocumentCount"

count(f, query) ==
    LET method == countPath(query)
    IN  call(f, "count", Args(method, query, NoOptions,
                              IF method = "countDocuments" THEN query ELSE NoQuery,
                              NoOptions, <<>>))

\* get aggregate(): returns this.model.aggregate, nothing is awaited
aggregate(f) ==
    LET m == model(f)
    IN  /\ resolve(m)
        /\ lastResult' = [NoResult EXCEPT !.op = Call(f, "aggregate", m.data, NoArgs)]
        /\ UNCHANGED <<oidCounter, inflight, lastCreate, generated, uncaught, stored>>
        /\ UNCHANGED connVars

(***************************************************************************)
(* The driver settles an operation.                                        *)
(***************************************************************************)
\* the driver settles the operation (resolved or rejected) and the await resumes
Settle(op) ==
    /\ BagIn(op, inflight)
    /\ inflight' = inflight (-) SetToBag({op})
    /\ UNCHANGED <<tenantDBModel, timers, nextHandle, oidCounter, lastCreate, generated, uncaught,
                   stored, lastResult>>
    /\ UNCHANGED connVars

\* the documents a query selects
Matching(query, docs) == SelectSeq(docs, LAMBDA d : query.v = "absent" \/ query.v = d)

\* what the server does with an update or a count, and what it answers
driver(args, docs) ==
    LET n == Len(Matching(args.query, docs))
        isUpdate == args.method \in {"updateOne", "updateMany"}
        inserts == isUpdate /\ n = 0 /\ args.options.upsert = "true"
    IN  [stored |-> IF inserts
                    THEN Append(docs, IF args.query.v = "absent" THEN "none" ELSE args.query.v)
                    ELSE docs,
         matchedCount |-> IF ~isUpdate THEN 0
                          ELSE IF args.method = "updateOne" /\ n > 1 THEN 1 ELSE n,
         upsertedCount |-> IF inserts THEN 1 ELSE 0,
         count |-> IF args.method = "countDocuments" THEN n
                   ELSE IF args.method = "estimatedDocumentCount" THEN Len(docs) ELSE 0]

\* the driver resolves an update or a count and the await returns its answer
Answer(op) ==
    LET r == driver(op.args, stored)
    IN  /\ BagIn(op, inflight)
        /\ op.args.method \in {"updateOne", "updateMany", "countDocuments", "estimatedDocumentCount"}
        /\ Len(r.stored) <= MaxDocs
        /\ inflight' = inflight (-) SetToBag({op})
        /\ stored' = r.stored
        /\ lastResult' = [op |-> op, matchedCount |-> r.matchedCount,
                          upsertedCount |-> r.upsertedCount, count |-> r.count]
        /\ UNCHANGED <<tenantDBModel, timers, nextHandle, oidCounter, lastCreate, generated, uncaught>>
        /\ UNCHANGED connVars

(***************************************************************************)
(* The expiry timer of a cache entry and the passage of time.              *)
(***************************************************************************)
\* mutant: the callback clears the timer and forgets to delete the entry
expireKeepsEntry(t) ==
    /\ timers' = { u \in timers : u.id # t.id }
    /\ UNCHANGED <<tenantDBModel, uncaught>>

\* mutant: the callback drops the whole keyed cache and every timer
expireAll(t) ==
    /\ timers' = {}
    /\ tenantDBModel' = <<>>
    /\ UNCHANGED uncaught

\* clearTimeout(global.tenantDBModel[name].timer); delete global.tenantDBModel[name]
expire(t) ==
    IF hasEntry(tenantDBModel, t.name)
    THEN /\ timers' = { u \in timers : u.id # t.id /\ u.id # tenantDBModel[t.name].timer }
         /\ tenantDBModel' = [n \in DOMAIN tenantDBModel \ {t.name} |-> tenantDBModel[n]]
         /\ UNCHANGED uncaught
    ELSE /\ timers' = timers \ {t}
         /\ uncaught' = TRUE
         /\ UNCHANGED tenantDBModel

\* mutant: the callback also aborts the operations that hold the entry's handle
TimerFireInvalidates(t) ==
    /\ t \in timers
    /\ t.remaining = 0
    /\ expire(t)
    /\ inflight' = IF hasEntry(tenantDBModel, t.name)
                   THEN LET live == { o \in BagToSet(inflight) :
                                        ~(o.name = t.name /\ o.handle = tenantDBModel[t.name].data) }
                        IN  [o \in live |-> inflight[o]]
                   ELSE inflight
    /\ UNCHANGED <<nextHandle, oidCounter, lastCreate, generated, stored, lastResult>>
    /\ UNCHANGED connVars

TimerFire(t) ==
    /\ t \in timers
    /\ t.remaining = 0
    /\ expire(t)
    /\ UNCHANGED <<nextHandle, oidCounter, inflight, lastCreate, generated, stored, lastResult>>
    /\ UNCHANGED connVars

Min(S) == CHOOSE x \in S : \A y \in S : x <= y

Advance ==
    /\ timers # {}
    /\ LET due == Min({ t.remaining : t \in timers })
           d == IF due < TickMs THEN due ELSE TickMs
       IN  /\ d > 0
           /\ timers' = { [t EXCEPT !.remaining = @ - d] : t \in timers }
    /\ UNCHANGED <<tenantDBModel, nextHandle, oidCounter, inflight, lastCreate, generated, uncaught,
                   stored, lastResult>>
    /\ UNCHANGED connVars

(***************************************************************************)
(* The connection manager (tool/mongodb.ts).                               *)
(***************************************************************************)
\* the values the configuration gives for MONGO_URL
Addresses == {Undefined, "", "db://bad-host", "db://good-host"}

\* the addresses a server answers at
Reachable == {"db://good-host"}

Logged(entries) == log' = log \o entries

\* mongoose.connect(address, {}, callback): the driver starts an attempt, or
\* chains the callback on the attempt under way, or refuses another address
\* while the connection is active
driverConnect(address) ==
    IF readyState = "disconnected"
    THEN /\ readyState' = "connecting"
         /\ target' = address
         /\ callbacks' = callbacks + 1
         /\ clientClosed' = FALSE
         /\ UNCHANGED thrown
    ELSE IF target # address
    THEN /\ thrown' = TRUE
         /\ UNCHANGED <<readyState, target, callbacks, clientClosed>>
    ELSE /\ callbacks' = IF readyState = "connecting" THEN callbacks + 1 ELSE callbacks
         /\ UNCHANGED <<readyState, target, thrown, clientClosed>>

\* mutant: the address is handed to the driver without the check
mongoconnectUnchecked ==
    /\ driverConnect(env)
    /\ UNCHANGED log

mongoconnect ==
    IF ~Truthy(env)
    THEN /\ Logged(<<"error:address required">>)
         /\ UNCHANGED <<readyState, target, callbacks, thrown, clientClosed>>
    ELSE /\ driverConnect(env)
         /\ UNCHANGED log

\* new MongoDB(): the three listeners, then init() -> mongoconnect()
Constructor ==
    /\ ~constructed
    /\ constructed' = TRUE
    /\ onceConnected' = TRUE
    /\ mongoconnect
    /\ UNCHANGED <<env, hasOpened, retryTimers, failures, drops, closed, closeOnOpen>>
    /\ UNCHANGED cacheVars

\* the connect callback: error => { log.error(error); setTimeout(mongoconnect, RECONNET_TIME) }
\* mutant: the manager gives up after two failed attempts
retryAfterGivingUp(pending, n) ==
    IF n = 0 \/ failures >= 2 THEN pending ELSE pending (+) [r \in {RECONNET_TIME} |-> n]

\* mutant: a failed attempt schedules two retries
retryAfterTwice(pending, n) ==
    IF n = 0 THEN pending ELSE pending (+) [r \in {RECONNET_TIME} |-> 2 * n]

retryAfter(pending, n) ==
    IF n = 0 THEN pending ELSE pending (+) [r \in {RECONNET_TIME} |-> n]

RECURSIVE Repeat(_, _)
Repeat(x, n) == IF n = 0 THEN <<>> ELSE <<x>> \o Repeat(x, n - 1)

\* mutant: the 'disconnected' listener is registered with once
ConnectFailOnce ==
    /\ readyState = "connecting"
    /\ failures < MaxFail
    /\ failures' = failures + 1
    /\ readyState' = "disconnected"
    /\ Logged((IF \E k \in DOMAIN log : log[k] = "fatal:disconnected"
               THEN <<>> ELSE <<"fatal:disconnected">>) \o Repeat("error:connect", callbacks))
    /\ retryTimers' = retryAfter(retryTimers, callbacks)
    /\ callbacks' = 0
    /\ UNCHANGED <<constructed, env, hasOpened, target, onceConnected, drops, thrown,
                   closed, closeOnOpen, clientClosed>>
    /\ UNCHANGED cacheVars

\* the attempt fails: the connection goes back to disconnected, the
\* 'disconnected' listener runs, then every callback gets the error
ConnectFail ==
    /\ readyState = "connecting"
    /\ failures < MaxFail
    /\ failures' = failures + 1
    /\ readyState' = "disconnected"
    /\ Logged(<<"fatal:disconnected">> \o Repeat("error:connect", callbacks))
    /\ retryTimers' = retryAfter(retryTimers, callbacks)
    /\ callbacks' = 0
    /\ UNCHANGED <<constructed, env, hasOpened, target, onceConnected, drops, thrown,
                   closed, closeOnOpen, clientClosed>>
    /\ UNCHANGED cacheVars

\* mutant: the 'connected' listener is registered with on and stays
ConnectSucceedOn ==
    /\ readyState = "connecting"
    /\ target \in Reachable
    /\ readyState' = IF closeOnOpen THEN "disconnected" ELSE "connected"
    /\ hasOpened' = TRUE
    /\ Logged((IF onceConnected THEN <<"info:connected">> ELSE <<>>)
              \o (IF closeOnOpen THEN <<"fatal:disconnected">> ELSE <<>>))
    /\ onceConnected' = onceConnected
    /\ callbacks' = 0
    /\ closeOnOpen' = FALSE
    /\ clientClosed' = closeOnOpen
    /\ UNCHANGED <<constructed, env, target, retryTimers, failures, drops, thrown, closed>>
    /\ UNCHANGED cacheVars

\* the attempt succeeds: 'connected' is emitted, the callbacks get no error;
\* a close() that waited for 'open' then closes the connection at once
ConnectSucceed ==
    /\ readyState = "connecting"
    /\ target \in Reachable
    /\ readyState' = IF closeOnOpen THEN "disconnected" ELSE "connected"
    /\ hasOpened' = TRUE
    /\ Logged((IF onceConnected THEN <<"info:connected">> ELSE <<>>)
              \o (IF closeOnOpen THEN <<"fatal:disconnected">> ELSE <<>>))
    /\ onceConnected' = FALSE
    /\ callbacks' = 0
    /\ closeOnOpen' = FALSE
    /\ clientClosed' = closeOnOpen
    /\ UNCHANGED <<constructed, env, target, retryTimers, failures, drops, thrown, closed>>
    /\ UNCHANGED cacheVars

\* the open connection breaks: 'disconnected' is emitted
Disconnect ==
    /\ readyState = "connected"
    /\ drops < MaxDrops
    /\ drops' = drops + 1
    /\ readyState' = "disconnected"
    /\ Logged(<<"fatal:disconnected">>)
    /\ UNCHANGED <<constructed, env, hasOpened, target, callbacks, onceConnected,
                   retryTimers, failures, thrown, closed, closeOnOpen, clientClosed>>
    /\ UNCHANGED cacheVars

\* the driver's own monitoring finds the server again: 'connected', then 'reconnected'
Reconnect ==
    /\ readyState = "disconnected"
    /\ hasOpened
    /\ ~clientClosed
    /\ callbacks = 0
    /\ readyState' = "connected"
    /\ Logged((IF onceConnected THEN <<"info:connected">> ELSE <<>>) \o <<"info:reconnected">>)
    /\ onceConnected' = FALSE
    /\ UNCHANGED <<constructed, env, hasOpened, target, callbacks, retryTimers,
                   failures, drops, thrown, closed, closeOnOpen, clientClosed>>
    /\ UNCHANGED cacheVars

\* a retry timer comes due and runs mongoconnect
RetryFire ==
    /\ BagIn(0, retryTimers)
    /\ retryTimers' = retryTimers (-) SetToBag({0})
    /\ mongoconnect
    /\ UNCHANGED <<constructed, env, hasOpened, onceConnected, failures, drops, closed,
                   closeOnOpen>>
    /\ UNCHANGED cacheVars

AdvanceConn ==
    /\ retryTimers # EmptyBag
    /\ LET due == Min(BagToSet(retryTimers))
           d == IF due < ConnTickMs THEN due ELSE ConnTickMs
       IN  /\ d > 0
           /\ retryTimers' = [r \in { q - d : q \in BagToSet(retryTimers) } |-> retryTimers[r + d]]
    /\ UNCHANGED <<constructed, env, readyState, hasOpened, target, callbacks, onceConnected,
                   log, failures, drops, thrown, closed, closeOnOpen, clientClosed>>
    /\ UNCHANGED cacheVars

\* the configuration changes
SetEnv(a) ==
    /\ a # env
    /\ env' = a
    /\ UNCHANGED <<constructed, readyState, hasOpened, target, callbacks, onceConnected,
                   retryTimers, log, failures, drops, thrown, closed, closeOnOpen, clientClosed>>
    /\ UNCHANGED cacheVars

\* MongoDB.close(): mongoose.connection.close(). An open connection is
\* closed ('disconnected' is emitted); while an attempt is under way the
\* close waits for 'open'; the retry timers are left as they are
close ==
    /\ constructed
    /\ ~closed
    /\ closed' = TRUE
    /\ readyState' = IF readyState = "connected" THEN "disconnected" ELSE readyState
    /\ Logged(IF readyState = "connected" THEN <<"fatal:disconnected">> ELSE <<>>)
    /\ closeOnOpen' = (readyState = "connecting")
    /\ clientClosed' = IF readyState = "connecting" THEN clientClosed ELSE TRUE
    /\ UNCHANGED <<constructed, env, hasOpened, target, callbacks, onceConnected,
                   retryTimers, failures, drops, thrown>>
    /\ UNCHANGED cacheVars

\* MongoDB.isUseful
isUseful == readyState = "connected"

(***************************************************************************)
(* The facade and its cache.                                               *)
(***************************************************************************)
InitConn ==
    /\ constructed = FALSE
    /\ env \in Addresses
    /\ readyState = "disconnected"
    /\ hasOpened = FALSE
    /\ target = Undefined
    /\ callbacks = 0
    /\ onceConnected = FALSE
    /\ retryTimers = EmptyBag
    /\ log = <<>>
    /\ failures = 0
    /\ drops = 0
    /\ thrown = FALSE
    /\ closed = FALSE
    /\ closeOnOpen = FALSE
    /\ clientClosed = FALSE

InitCache ==
    /\ tenantDBModel = <<>>
    /\ timers = {}
    /\ nextHandle = 0
    /\ oidCounter = 0
    /\ inflight = EmptyBag
    /\ lastCreate = [called |-> FALSE, data |-> NoData, docs |-> <<>>]
    /\ generated = <<>>
    /\ uncaught = FALSE
    /\ lastResult = NoResult

Init == InitCache /\ InitConn /\ stored = <<>>

\* the facade at work, the configuration left alone
InitFacade == Init /\ env = "db://good-host"

\* the calls made while the cache is exercised
CacheInputs ==
    { d \in DataInputs :
        \/ ~d.isArray /\ d.recs[1]._id.type = "undefined"
        \/ d.isArray /\ Len(d.recs) = 2 /\ d.recs[1]._id.type = "undefined"
                     /\ d.recs[2]._id.val = <<"a", "1">> }

Next ==
    \/ \E f \in Facades, data \in CacheInputs : create(f, data)
    \/ \E f \in Facades : find(f)
    \/ \E op \in BagToSet(inflight) : Settle(op)
    \/ \E t \in timers : TimerFire(t)
    \/ Advance

Spec == InitFacade /\ [][Next]_vars

(***************************************************************************)
(* create and id over every argument, on one tenant facade.                *)
(***************************************************************************)
IdFacades == { f \in Facades : f.collectionName = "t1_orders" /\ f.inst = 1 }

NextCreate ==
    \/ \E f \in IdFacades, data \in DataInputs : create(f, data)
    \/ \E op \in BagToSet(inflight) : Settle(op)

SpecCreate == InitFacade /\ [][NextCreate]_vars

(***************************************************************************)
(* Updates, upserts and counts, awaited one at a time, over every          *)
(* argument and on every small collection.                                 *)
(***************************************************************************)
Datasets == UNION { [1..n -> FieldValues] : n \in 0..MaxDocs }

InitData ==
    /\ InitCache
    /\ InitConn
    /\ env = "db://good-host"
    /\ stored \in Datasets

UpdateQueries == QueryInputs \ {NoQuery}

NextData ==
    \/ inflight = EmptyBag /\ \E f \in IdFacades, q \in UpdateQueries, o \in OptionInputs : updateOne(f, q, o)
    \/ inflight = EmptyBag /\ \E f \in IdFacades, q \in UpdateQueries, o \in OptionInputs : updateMany(f, q, o)
    \/ inflight = EmptyBag /\ \E f \in IdFacades, q \in UpdateQueries, o \in OptionInputs : upsertOne(f, q, o)
    \/ inflight = EmptyBag /\ \E f \in IdFacades, q \in UpdateQueries, o \in OptionInputs : upsertMany(f, q, o)
    \/ inflight = EmptyBag /\ \E f \in IdFacades, q \in QueryInputs : count(f, q)
    \/ \E op \in BagToSet(inflight) : Answer(op)

SpecData == InitData /\ [][NextData]_vars

(***************************************************************************)
(* Every operation of a tenant facade, the expiry of its entry and time.   *)
(***************************************************************************)
OneRecord == [isArray |-> FALSE, recs |-> <<Rec([type |-> "undefined", val |-> <<>>], 1)>>]

NextOps ==
    \/ \E f \in IdFacades : create(f, OneRecord)
    \/ \E f \in IdFacades : removeOne(f, Query("a"))
    \/ \E f \in IdFacades : removeMany(f, Query("a"))
    \/ \E f \in IdFacades : updateOne(f, Query("a"), NoOptions)
    \/ \E f \in IdFacades : updateMany(f, Query("a"), NoOptions)
    \/ \E f \in IdFacades : upsertOne(f, Query("a"), NoOptions)
    \/ \E f \in IdFacades : upsertMany(f, Query("a"), NoOptions)
    \/ \E f \in IdFacades : find(f)
    \/ \E f \in IdFacades : findOne(f, Query("a"))
    \/ \E f \in IdFacades : findById(f, "a")
    \/ \E f \in IdFacades : paging(f, Query("a"))
    \/ \E f \in IdFacades : count(f, NoQuery)
    \/ \E f \in IdFacades : aggregate(f)
    \/ \E op \in BagToSet(inflight) : Settle(op)
    \/ \E t \in timers : TimerFire(t)
    \/ Advance

SpecOps == InitFacade /\ [][NextOps]_vars

(***************************************************************************)
(* Properties of the facade and its cache.                                 *)
(***************************************************************************)
InFlightOps == BagToSet(inflight)

\* the operations in flight on collection n that hold handle h
Holding(n, h) ==
    LET S == { o \in InFlightOps : o.name = n /\ o.handle = h }
        RECURSIVE Sum(_)
        Sum(T) == IF T = {} THEN 0
                  ELSE LET o == CHOOSE x \in T : TRUE
                       IN  CopiesIn(o, inflight) + Sum(T \ {o})
    IN  Sum(S)

\* the operation a step has put in flight, if any
Issued(o) == CopiesIn(o, inflight') > CopiesIn(o, inflight)

TenantNames == { f.collectionName : f \in { g \in Facades : Truthy(g.tenantId) } }

PlainNames == { f.collectionName : f \in { g \in Facades : ~Truthy(g.tenantId) } }

TimerOf(set, n) == { t \in set : t.id = tenantDBModel[n].timer }

\* an identifier that is a string with a character other than whitespace
NonBlankString(v) ==
    v.type = "string" /\ \E k \in DOMAIN v.val : v.val[k] \notin Whitespace

HexChars == { HexDigits[k] : k \in DOMAIN HexDigits }

\* an object-id-style identifier: a string of 24 hexadecimal characters
ObjectIdStyle(v) ==
    v.type = "string" /\ Len(v.val) = 24 /\ \A k \in DOMAIN v.val : v.val[k] \in HexChars

\* C1: on a facade without a tenant id, any two handle resolutions for the
\* same collection name return the identical handle (stated on the
\* operations in flight on such a name: they all hold the one handle).
C1_SingletonReuse ==
    \A o1 \in InFlightOps : \A o2 \in InFlightOps :
        (o1.name \in PlainNames /\ o2.name = o1.name) => o1.handle = o2.handle

\* C2: create on a record whose _id is already a non-blank string hands the
\* driver a record with that same _id, in the single-record form and for
\* every such record of the sequence form.
C2_KeepsGivenId ==
    lastCreate.called =>
        \A i \in DOMAIN lastCreate.data.recs :
            NonBlankString(lastCreate.data.recs[i]._id) =>
                \E k \in DOMAIN lastCreate.docs : lastCreate.docs[k] = lastCreate.data.recs[i]

\* C3: create on a sequence of n records hands exactly n records to the
\* bulk insert, one per input record and in input order; only the records
\* lacking a non-blank string _id get a generated one.
C3_BulkKeepsEveryRecord ==
    (lastCreate.called /\ lastCreate.data.isArray) =>
        /\ Len(lastCreate.docs) = Len(lastCreate.data.recs)
        /\ \A i \in DOMAIN lastCreate.data.recs :
              /\ lastCreate.docs[i].body = lastCreate.data.recs[i].body
              /\ IF NonBlankString(lastCreate.data.recs[i]._id)
                 THEN lastCreate.docs[i]._id = lastCreate.data.recs[i]._id
                 ELSE ObjectIdStyle(lastCreate.docs[i]._id)

\* the records of a call whose _id is missing, not a string, or blank, in order
Lacking(recs) == SelectSeq(recs, LAMBDA r : ~NonBlankString(r._id))

\* C4: every record handed on from an input whose _id was missing, not a
\* string or blank carries a non-blank generated identifier (24 hexadecimal
\* characters), and no two generated identifiers are equal, over all calls.
C4_GeneratedIds ==
    /\ lastCreate.called =>
          LET lacking == Lacking(lastCreate.data.recs)
              docs == lastCreate.docs
          IN  \A k \in DOMAIN lacking :
                 \E j \in DOMAIN docs :
                    /\ docs[j].body = lacking[k].body
                    /\ NonBlankString(docs[j]._id)
                    /\ ObjectIdStyle(docs[j]._id)
                    /\ docs[j]._id \in { generated[g] : g \in DOMAIN generated }
    /\ \A a \in DOMAIN generated : \A b \in DOMAIN generated :
          a # b => generated[a] # generated[b]

\* two calls have generated an identifier each, the later one for the blank
\* identifier of a sequence that also holds a record with a given one
C4_Witness ==
    /\ lastCreate.called
    /\ lastCreate.data.isArray
    /\ Len(lastCreate.data.recs) = 2
    /\ NonBlankString(lastCreate.data.recs[1]._id)
    /\ lastCreate.data.recs[2]._id = [type |-> "string", val |-> <<" ", "\t">>]
    /\ Len(lastCreate.docs) = 1
    /\ Len(generated) = 2

\* C5: a tenant entry is created with a freshly compiled handle and a timer
\* of 30 minutes; the timer runs down with time alone, whatever is called in
\* between; the entry leaves the cache exactly when that timer fires, at 0;
\* and the next creation for the name compiles another handle.
C5_step ==
    \A n \in Names :
        /\ (n \notin DOMAIN tenantDBModel /\ n \in DOMAIN tenantDBModel') =>
              /\ n \in TenantNames
              /\ tenantDBModel'[n].data = nextHandle + 1
              /\ nextHandle' = nextHandle + 1
              /\ \E t \in timers' \ timers :
                    /\ t.id = tenantDBModel'[n].timer
                    /\ t.name = n
                    /\ t.remaining = TTL
        /\ (n \in DOMAIN tenantDBModel /\ n \notin DOMAIN tenantDBModel') =>
              /\ \E t \in timers : t.id = tenantDBModel[n].timer /\ t.remaining = 0
              /\ \A t \in timers' : t.id # tenantDBModel[n].timer
        /\ (n \in DOMAIN tenantDBModel) =>
              \A t \in timers :
                 t.id = tenantDBModel[n].timer =>
                    \/ /\ t.remaining = 0
                       /\ n \notin DOMAIN tenantDBModel'
                    \/ /\ n \in DOMAIN tenantDBModel'
                       /\ \E u \in timers' :
                             /\ u.id = t.id
                             /\ u.remaining <= t.remaining
                             /\ (u.remaining < t.remaining => inflight' = inflight)

C5_ExpiryAndRecreation ==
    /\ [][C5_step]_vars
    /\ [](\A n \in DOMAIN tenantDBModel :
             \E t \in timers : t.id = tenantDBModel[n].timer /\ t.remaining <= TTL)

\* an operation still holds the first handle of t1_orders while the cache
\* holds the second, compiled after the first entry expired
C5_Witness ==
    /\ "t1_orders" \in DOMAIN tenantDBModel
    /\ tenantDBModel["t1_orders"].data = 2
    /\ Holding("t1_orders", 1) > 0
    /\ \E t \in timers : t.id = tenantDBModel["t1_orders"].timer /\ t.remaining = TTL

\* C6: a call for a name with a live entry returns the entry's handle and
\* leaves the keyed cache as it is: nothing is compiled, no entry is
\* written, and no timer is reset, replaced or added.
C6_step ==
    \A o \in BagToSet(inflight') :
        (Issued(o) /\ o.name \in DOMAIN tenantDBModel) =>
            /\ o.handle = tenantDBModel[o.name].data
            /\ tenantDBModel' = tenantDBModel
            /\ timers' = timers
            /\ nextHandle' = nextHandle

C6_HitLeavesCacheAlone == [][C6_step]_vars

\* two operations hold the handle of a live entry whose timer has run down in part
C6_Witness ==
    \E n \in DOMAIN tenantDBModel :
        /\ Holding(n, tenantDBModel[n].data) = 2
        /\ \E t \in timers : t.id = tenantDBModel[n].timer /\ t.remaining < TTL /\ t.remaining > 0

\* C7: under every interleaving of operations and timer firings the cache
\* holds at most one live registration per collection name: a live entry is
\* never replaced by another, and no name has two handles awaiting expiry.
C7_step ==
    \A n \in Names :
        (n \in DOMAIN tenantDBModel /\ n \in DOMAIN tenantDBModel') =>
            tenantDBModel'[n] = tenantDBModel[n]

C7_OneLiveHandlePerName ==
    /\ [][C7_step]_vars
    /\ [](\A n \in Names : Cardinality({ t.id : t \in { u \in timers : u.name = n } }) <= 1)

\* first requests of two operations on t1_orders are in flight together,
\* while t2_orders has its own entry
C7_Witness ==
    /\ DOMAIN tenantDBModel = TenantNames
    /\ Holding("t1_orders", tenantDBModel["t1_orders"].data) = 2

(***************************************************************************)
(* The connection manager and its environment.                             *)
(***************************************************************************)
NextConn ==
    \/ Constructor
    \/ ConnectFail
    \/ ConnectSucceed
    \/ Disconnect
    \/ Reconnect
    \/ RetryFire
    \/ AdvanceConn
    \/ \E a \in Addresses : SetEnv(a)
    \/ close

SpecConn == Init /\ [][NextConn]_vars

\* the event loop runs a due timer, time passes, and the driver reports the
\* outcome of an attempt
SpecConnFair ==
    /\ SpecConn
    /\ WF_vars(Constructor)
    /\ WF_vars(RetryFire)
    /\ WF_vars(AdvanceConn)

(***************************************************************************)
(* Properties of the connection manager.                                   *)
(***************************************************************************)
Count(x, seq) == Cardinality({ k \in DOMAIN seq : seq[k] = x })

Pending == BagCardinality(retryTimers)

\* a step in which mongoconnect has run: the constructor's, or a retry timer's
Connecting == constructed' # constructed \/ Pending' < Pending

\* C8: a failed attempt is logged as an error and schedules exactly one
\* retry, 5000 ms ahead, after every failure alike; a retry timer leaves the
\* queue only by firing when its 5000 ms are over, and then starts the next
\* attempt at the configured address; and every pending retry does fire.
C8_step ==
    /\ (readyState = "connecting" /\ failures' > failures) =>
          /\ Pending' = Pending + 1
          /\ CopiesIn(RECONNET_TIME, retryTimers') = CopiesIn(RECONNET_TIME, retryTimers) + 1
          /\ Count("error:connect", log') = Count("error:connect", log) + 1
    /\ (Pending' < Pending) =>
          /\ BagIn(0, retryTimers)
          /\ Pending' = Pending - 1
          /\ Truthy(env) => (readyState' = "connecting" /\ target' = env /\ callbacks' = 1)

C8_RetryForever ==
    /\ [][C8_step]_vars
    /\ (retryTimers # EmptyBag) ~> (retryTimers = EmptyBag)

\* the third attempt is under way, after two failures were each logged
C8_Witness ==
    /\ failures = 2
    /\ readyState = "connecting"
    /\ Count("error:connect", log) = 2
    /\ retryTimers = EmptyBag

\* C9: after a mid-session disconnect the manager reports it at fatal
\* severity and a reconnection by the manager is pending: a retry timer is
\* running or an attempt of its own is under way.
C9_DropIsRetried ==
    (hasOpened /\ readyState = "disconnected" /\ ~closed) =>
        /\ log # <<>> /\ log[Len(log)] = "fatal:disconnected"
        /\ (retryTimers # EmptyBag \/ callbacks > 0)

\* C10: when mongoconnect finds no address it reports the configuration
\* error, starts no attempt and schedules no retry, and leaves the
\* connection as it is; at the constructor's call and at a retry's alike.
C10_step ==
    (~Truthy(env) /\ Connecting) =>
        /\ log' = Append(log, "error:address required")
        /\ readyState' = readyState
        /\ target' = target
        /\ callbacks' = callbacks
        /\ retryTimers' \in {retryTimers, retryTimers (-) SetToBag({0})}

C10_NoAddressNoAttempt == [][C10_step]_vars

\* the address was found missing by a retry: nothing is pending afterwards
C10_Witness ==
    /\ failures > 0
    /\ log # <<>> /\ log[Len(log)] = "error:address required"
    /\ readyState = "disconnected"
    /\ callbacks = 0
    /\ retryTimers = EmptyBag

\* the lifecycle events of the log: fatal disconnects and the connected event
LifeLog ==
    SelectSeq(log, LAMBDA e : e \in {"fatal:disconnected", "info:connected"})

\* C11: when the first k attempts have failed and attempt k+1 has
\* succeeded, exactly k fatal disconnect events have been emitted, all
\* before the connected event, and exactly one connected event.
C11_FatalsThenConnected ==
    (readyState = "connected" /\ drops = 0) =>
        LifeLog = Repeat("fatal:disconnected", failures) \o <<"info:connected">>

\* three attempts have failed and the fourth, at the corrected address, has succeeded
C11_Witness ==
    /\ readyState = "connected"
    /\ drops = 0
    /\ failures = 3
    /\ target = "db://good-host"
    /\ Count("fatal:disconnected", log) = 3

\* C12: the initial-connect event is emitted exactly once, by the first
\* successful connect; every later return to connected emits the
\* reconnect event and no second initial-connect event.
C12_step ==
    (readyState # "connected" /\ readyState' = "connected") =>
        log' = Append(log, IF hasOpened THEN "info:reconnected" ELSE "info:connected")

C12_ConnectedOnce ==
    /\ [][C12_step]_vars
    /\ [](Count("info:connected", log) = IF hasOpened THEN 1 ELSE 0)

\* the connection has come back after a drop
C12_Witness ==
    /\ readyState = "connected"
    /\ drops = 1
    /\ Count("info:reconnected", log) = 1
    /\ Count("info:connected", log) = 1

\* C19: at most one retry timer is pending and at most one attempt of the
\* manager is in flight, never both at once; an attempt is started only by
\* the constructor or by a retry timer, and a failed attempt schedules one
\* retry.
C19_step ==
    /\ callbacks' > callbacks => Connecting
    /\ Pending' > Pending => (readyState = "connecting" /\ Pending' = Pending + 1)

C19_OneRetryOneAttempt ==
    /\ [][C19_step]_vars
    /\ [](Pending + callbacks <= 1)

\* the retry after the third failure is the only thing pending
C19_Witness ==
    /\ failures = 3
    /\ Pending = 1
    /\ callbacks = 0
    /\ readyState = "disconnected"

\* C20: once close() has been called and is not waiting for an attempt
\* that was already under way, the connection stays closed: no attempt is
\* started and the connection is not open.
C20_ClosedStaysClosed ==
    (closed /\ ~closeOnOpen) => readyState = "disconnected"

\* C14: tenant facades with distinct collection names each get their own
\* entry, with its own handle and its own timer; a step that creates or
\* removes the entry of one name leaves the entry, the handle and the timer
\* of every other name as they were.
C14_step ==
    \A n \in TenantNames :
        ((n \in DOMAIN tenantDBModel) # (n \in DOMAIN tenantDBModel')) =>
            \A m \in TenantNames \ {n} :
                /\ (m \in DOMAIN tenantDBModel) = (m \in DOMAIN tenantDBModel')
                /\ m \in DOMAIN tenantDBModel =>
                      /\ tenantDBModel'[m] = tenantDBModel[m]
                      /\ TimerOf(timers', m) = TimerOf(timers, m)

C14_IndependentEntries ==
    /\ [][C14_step]_vars
    /\ [](\A n, m \in DOMAIN tenantDBModel :
             n # m => /\ tenantDBModel[n].data # tenantDBModel[m].data
                      /\ tenantDBModel[n].timer # tenantDBModel[m].timer
                      /\ TimerOf(timers, n) \cap TimerOf(timers, m) = {})

\* the first operations on t1_orders and t2_orders are in flight together,
\* each on the handle of its own entry, each entry with its own full timer
C14_Witness ==
    /\ DOMAIN tenantDBModel = {"t1_orders", "t2_orders"}
    /\ Holding("t1_orders", tenantDBModel["t1_orders"].data) = 1
    /\ Holding("t2_orders", tenantDBModel["t2_orders"].data) = 1
    /\ \A n \in DOMAIN tenantDBModel : \E t \in TimerOf(timers, n) : t.remaining = TTL

\* C15: the step that removes an entry changes the keyed cache and its
\* timer only: the operations in flight, the one on the removed handle
\* included, stay in flight on the handles they hold, and each can still be
\* completed by the driver.
C15_step ==
    (\E n \in DOMAIN tenantDBModel : n \notin DOMAIN tenantDBModel') =>
        /\ inflight' = inflight
        /\ nextHandle' = nextHandle
        /\ <<oidCounter, lastCreate, generated>>' = <<oidCounter, lastCreate, generated>>
        /\ timers' \subseteq timers

C15_EvictionKeepsHandles ==
    /\ [][C15_step]_vars
    /\ [](\A o \in InFlightOps : ENABLED Settle(o))

\* the entry of t1_orders is gone and nothing has replaced it, while an
\* operation is still in flight on its handle
C15_Witness ==
    /\ "t1_orders" \notin DOMAIN tenantDBModel
    /\ nextHandle = 1
    /\ Holding("t1_orders", 1) > 0

\* C18: each live entry has exactly one pending timer, the one it was
\* stored with, and every pending timer belongs to the live entry of its
\* name; so a firing callback finds its own entry and nothing escapes it.
C18_TimerMatchesEntry ==
    /\ \A n \in DOMAIN tenantDBModel :
          /\ Cardinality({ t \in timers : t.name = n }) = 1
          /\ Cardinality(TimerOf(timers, n)) = 1
          /\ \A t \in TimerOf(timers, n) : t.name = n
    /\ \A t \in timers :
          /\ t.name \in DOMAIN tenantDBModel
          /\ tenantDBModel[t.name].timer = t.id
          /\ tenantDBModel[t.name].data = t.id
    /\ ~uncaught

\* the timer of the second entry of t1_orders is about to fire, while
\* t2_orders has a live entry of its own
C18_Witness ==
    /\ DOMAIN tenantDBModel = {"t1_orders", "t2_orders"}
    /\ tenantDBModel["t1_orders"].data > 1
    /\ \E t \in TimerOf(timers, "t1_orders") : t.remaining = 0
    /\ \E t \in TimerOf(timers, "t2_orders") : t.remaining > 0

(***************************************************************************)
(* Properties of the facade's operations.                                  *)
(***************************************************************************)
\* the calls that are awaited or have just been answered
KnownOps == InFlightOps \cup {lastResult.op}

\* C13: upsertOne and upsertMany call updateOne and updateMany with the
\* caller's query, with upsert true whatever the caller's options say, and
\* with every other option as the caller gave it; an upsert that matches
\* nothing reports upsertedCount 1, also when the caller gave upsert false.
C13_UpsertForced ==
    /\ \A o \in KnownOps :
          o.kind \in {"upsertOne", "upsertMany"} =>
             /\ o.args.method = (IF o.kind = "upsertOne" THEN "updateOne" ELSE "updateMany")
             /\ o.args.query = o.args.asked
             /\ o.args.options.given
             /\ o.args.options.upsert = "true"
             /\ o.args.options.runValidators = o.args.given.runValidators
    /\ (lastResult.op.kind \in {"upsertOne", "upsertMany"} /\ lastResult.matchedCount = 0) =>
          /\ lastResult.upsertedCount = 1
          /\ Matching(lastResult.op.args.asked, stored) # <<>>

\* upsertOne with { upsert: false, runValidators: true } matched nothing and inserted
C13_Witness ==
    /\ lastResult.op.kind = "upsertOne"
    /\ lastResult.op.args.given = Options("false", "true")
    /\ lastResult.matchedCount = 0
    /\ lastResult.upsertedCount = 1

\* C16: count takes countDocuments on the query whenever a query is given,
\* an empty object included, and estimatedDocumentCount only when the query
\* is omitted; the first answers the number of matching documents, the
\* second the total, so the two differ when the query selects a part.
C16_CountPaths ==
    /\ \A o \in KnownOps :
          o.kind = "count" =>
             IF o.args.asked.given
             THEN o.args.method = "countDocuments" /\ o.args.query = o.args.asked
             ELSE o.args.method = "estimatedDocumentCount"
    /\ lastResult.op.kind = "count" =>
          /\ lastResult.count = IF lastResult.op.args.asked.given
                                THEN Len(Matching(lastResult.op.args.asked, stored))
                                ELSE Len(stored)
          /\ (/\ lastResult.op.args.asked.given
              /\ Len(Matching(lastResult.op.args.asked, stored)) < Len(stored)) =>
                 lastResult.count # driver(Args(countPath(NoQuery), NoQuery, NoOptions,
                                                NoQuery, NoOptions, <<>>), stored).count

\* count({ v: 'a' }) has answered 1 of 2 documents and count({}) is on countDocuments
C16_Witness ==
    /\ Len(stored) = 2
    /\ lastResult.op.kind = "count"
    /\ lastResult.op.args.asked = Query("a")
    /\ lastResult.count = 1
    /\ \E o \in InFlightOps :
          o.kind = "count" /\ o.args.asked = EmptyQuery /\ o.args.method = "countDocuments"

\* the handle h of collection n comes from the getter in this step: the
\* cached one, or a newly compiled one stored with a timer of 30 minutes
Resolved(n, h) ==
    IF n \in DOMAIN tenantDBModel
    THEN /\ h = tenantDBModel[n].data
         /\ <<tenantDBModel, timers, nextHandle>>' = <<tenantDBModel, timers, nextHandle>>
    ELSE /\ h = nextHandle + 1
         /\ nextHandle' = h
         /\ n \in DOMAIN tenantDBModel'
         /\ tenantDBModel'[n].data = h
         /\ \E t \in timers' \ timers :
               t.id = tenantDBModel'[n].timer /\ t.name = n /\ t.remaining = TTL

AsyncOperations ==
    {"create", "removeOne", "removeMany", "updateOne", "updateMany", "upsertOne",
     "upsertMany", "find", "findOne", "findById", "paging", "count"}

\* C17: every operation of a tenant facade takes its handle from the
\* getter at the time of the call: with no live entry for the name the
\* call compiles a handle, stores the entry and starts its timer, with a
\* live entry it uses the cached handle and leaves the cache alone; and
\* entries appear by such calls only.
C17_step ==
    /\ \A o \in BagToSet(inflight') :
          Issued(o) => o.kind \in AsyncOperations /\ Resolved(o.name, o.handle)
    /\ (lastResult' # lastResult /\ lastResult'.op.kind = "aggregate") =>
          Resolved(lastResult'.op.name, lastResult'.op.handle)
    /\ \A n \in Names :
          (n \notin DOMAIN tenantDBModel /\ n \in DOMAIN tenantDBModel') =>
             \/ \E o \in BagToSet(inflight') : Issued(o) /\ o.name = n
             \/ lastResult'.op.kind = "aggregate" /\ lastResult'.op.name = n

C17_EveryOperationResolves == [][C17_step]_vars

\* a paging call still holds the first handle; after the entry expired a
\* count compiled the second and aggregate was read from the cached second
C17_Witness ==
    /\ "t1_orders" \in DOMAIN tenantDBModel
    /\ tenantDBModel["t1_orders"].data = 2
    /\ \E o \in InFlightOps : o.kind = "paging" /\ o.handle = 1
    /\ \E o \in InFlightOps : o.kind = "count" /\ o.handle = 2
    /\ lastResult.op.kind = "aggregate" /\ lastResult.op.handle = 2

====
